---- MODULE Spec2Model ----
(***************************************************************************)
(* city-pop (src/src/main.rs): a one-pass scan over the rows of a CSV      *)
(* table that collects the rows whose City equals the requested city,      *)
(* optionally including rows whose Population cell is empty.               *)
(*                                                                         *)
(* Option<T> is modelled as a sequence of length at most one: <<>> is None *)
(* and <<x>> is Some(x).  A Population cell is a sequence of characters so *)
(* that parsing (str -> u64) and printing (u64 -> String) are computed     *)
(* digit by digit.  Populations stay far below 2^64, so the overflow       *)
(* branch of the u64 parser is not exercised.                              *)
(***************************************************************************)
EXTENDS Integers, Sequences, FiniteSets, TLC

VARIABLES args, input, pc, handle, opens, pos, found, result,
          stdout, stderr, status, run, prev

vars == <<args, input, pc, handle, opens, pos, found, result,
          stdout, stderr, status, run, prev>>

(* ------------------------------ bounds --------------------------------- *)

\* longest table (data rows after the header) explored by Spec
MaxRows == 3

\* longest table explored by the two-run specification TwoRunSpec
MaxRowsTwoRun == 2

(* --------------------------- input universe ---------------------------- *)

Columns == {"City", "Country", "Region", "Population"}

CityCells == {"Paris", "Rome"}

PopulationCells == { <<>>, <<"7">>, <<"4", "2">>, <<"a">> }

\* rows with one cell per header column
FullRows ==
    [City : CityCells, Country : {"France"}, Region : {"Texas"},
     Population : PopulationCells]

\* a row with fewer cells than the header
ShortRow == [City |-> "Paris", Country |-> "France", Region |-> "Texas"]

RawRows == FullRows \cup {ShortRow}

Tables(n) == UNION { [1..k -> RawRows] : k \in 0..n }

TargetCities == {"Paris", "Atlantis"}

DataPaths == { <<>>, <<"data.csv">>, <<"missing.csv">> }

\* the one file of the file system; any other path does not exist
FileExists(p) == p = "data.csv"

(* ------------------------- decoding and printing ----------------------- *)

Digits == <<"0", "1", "2", "3", "4", "5", "6", "7", "8", "9">>

IsDigit(c) == \E d \in 1..10 : Digits[d] = c

DigitVal(c) == (CHOOSE d \in 1..10 : Digits[d] = c) - 1

RECURSIVE ParseDigits(_, _)
ParseDigits(s, acc) ==
    IF s = <<>> THEN acc
    ELSE ParseDigits(Tail(s), acc * 10 + DigitVal(Head(s)))

\* str::parse::<u64>: an optional leading '+', then one or more digits
ParseU64(cell) ==
    LET body == IF cell # <<>> /\ Head(cell) = "+" THEN Tail(cell) ELSE cell
    IN  IF body # <<>> /\ \A i \in 1..Len(body) : IsDigit(body[i])
        THEN [ok |-> TRUE, val |-> ParseDigits(body, 0)]
        ELSE [ok |-> FALSE, val |-> 0]

\* Option<u64>: the empty cell is None, any other cell must parse as u64
ParsePopulation(cell) ==
    IF cell = <<>> THEN [ok |-> TRUE, val |-> <<>>]
    ELSE LET p == ParseU64(cell)
         IN  IF p.ok THEN [ok |-> TRUE, val |-> <<p.val>>]
             ELSE [ok |-> FALSE, val |-> <<>>]

NoRecord == [city |-> "", country |-> "", region |-> "", population |-> <<>>]

\* deserialize one row into a PopulationCount
Decode(raw) ==
    IF DOMAIN raw # Columns THEN [ok |-> FALSE, rec |-> NoRecord]
    ELSE LET p == ParsePopulation(raw.Population)
         IN  IF ~p.ok THEN [ok |-> FALSE, rec |-> NoRecord]
             ELSE [ok |-> TRUE,
                   rec |-> [city |-> raw.City, country |-> raw.Country,
                            region |-> raw.Region, population |-> p.val]]

\* u64::to_string
RECURSIVE ToString_u64(_)
ToString_u64(n) ==
    IF n < 10 THEN Digits[n + 1]
    ELSE ToString_u64(n \div 10) \o Digits[(n % 10) + 1]

UnknownPopulation == "Unknown Population"

\* mutant of Render: country and region printed in declaration order
RenderCountryFirst(p) ==
    p.city \o ", " \o p.country \o ", " \o p.region \o ": " \o
    (IF p.population = <<>> THEN UnknownPopulation
     ELSE ToString_u64(p.population[1]))

\* println!("{}, {}, {}: {}", city, region, country, population-or-unknown)
Render(p) ==
    p.city \o ", " \o p.region \o ", " \o p.country \o ": " \o
    (IF p.population = <<>> THEN UnknownPopulation
     ELSE ToString_u64(p.population[1]))

RECURSIVE RenderAll(_)
RenderAll(ps) ==
    IF ps = <<>> THEN <<>> ELSE <<Render(Head(ps))>> \o RenderAll(Tail(ps))

(* ------------------------------ CliError ------------------------------- *)

NotFoundMessage == "No matching cities with a population were found."

\* text of the underlying io::Error / csv::Error
IoErrorText == "No such file or directory (os error 2)"

CsvErrorText == "CSV deserialize error"

\* impl fmt::Display for CliError
Display(kind) ==
    CASE kind = "Io" -> IoErrorText
      [] kind = "Csv" -> CsvErrorText
      [] kind = "NotFound" -> NotFoundMessage

Pending == [kind |-> "Pending", val |-> <<>>]

Err(kind) == [kind |-> kind, val |-> <<>>]

Ok(v) == [kind |-> "Ok", val |-> v]

(* ------------------------------- search -------------------------------- *)

\* mutant of EmptyVec: the accumulator of an earlier call is reused
StaleVec == found

\* let mut found = vec![];
EmptyVec == <<>>

\* stdin when no path is given, File::open(path)? otherwise
OpenInput(path) ==
    IF path = <<>> THEN [ok |-> TRUE]
    ELSE [ok |-> FileExists(path[1])]

\* mutant of Accept: the population test is dropped
AcceptAnyPopulation(row, city, include_unknowns) == row.city = city

\* mutant of Accept: the population test is applied in both modes
AcceptKnownOnly(row, city, include_unknowns) ==
    row.population # <<>> /\ row.city = city

\* the branches of the loop body that push the row
Accept(row, city, include_unknowns) ==
    IF include_unknowns /\ row.city = city THEN TRUE
    ELSE IF row.population = <<>> THEN FALSE
         ELSE row.city = city

\* mutant of Push: the row is inserted at the front
PushFront(v, row) == <<row>> \o v

\* found.push(row)
Push(v, row) == Append(v, row)

\* mutant of OnRow: a row that fails to decode is skipped
OnRowSkipBad(raw, acc, city, include_unknowns) ==
    LET d == Decode(raw)
    IN  IF ~d.ok THEN [abort |-> FALSE, found |-> acc]
        ELSE IF Accept(d.rec, city, include_unknowns)
             THEN [abort |-> FALSE, found |-> Push(acc, d.rec)]
             ELSE [abort |-> FALSE, found |-> acc]

\* one iteration of `for row in rdr.deserialize()`
OnRow(raw, acc, city, include_unknowns) ==
    LET d == Decode(raw)
    IN  IF ~d.ok THEN [abort |-> TRUE, found |-> acc]
        ELSE IF Accept(d.rec, city, include_unknowns)
             THEN [abort |-> FALSE, found |-> Push(acc, d.rec)]
             ELSE [abort |-> FALSE, found |-> acc]

\* mutant of SearchEnd: the emptiness test is missing
SearchEndAlwaysOk(v) == Ok(v)

\* if found.is_empty() { Err(NotFound) } else { Ok(found) }
SearchEnd(v) == IF v = <<>> THEN Err("NotFound") ELSE Ok(v)

\* mutant of DropReader: the reader is not dropped when `?` returns early
DropReaderLeakOnError(h, kind) ==
    IF kind = "Csv" THEN h ELSE IF h = "open" THEN "closed" ELSE h

\* rdr (which owns the boxed input) goes out of scope when search returns
DropReader(h, kind) == IF h = "open" THEN "closed" ELSE h

(* -------------------------------- main --------------------------------- *)

\* mutant of MainMatch: quiet mode also turns the failure status into 0
MainMatchQuietSucceeds(res, quiet) ==
    IF res.kind = "NotFound" /\ quiet
    THEN [stdout |-> <<>>, stderr |-> <<>>, status |-> 0]
    ELSE IF res.kind # "Ok"
    THEN [stdout |-> <<>>, stderr |-> <<Display(res.kind)>>, status |-> 1]
    ELSE [stdout |-> RenderAll(res.val), stderr |-> <<>>, status |-> 0]

\* mutant of MainMatch: the quiet arm matches every error
MainMatchQuietAll(res, quiet) ==
    IF res.kind # "Ok" /\ quiet
    THEN [stdout |-> <<>>, stderr |-> <<>>, status |-> 1]
    ELSE IF res.kind # "Ok"
    THEN [stdout |-> <<>>, stderr |-> <<Display(res.kind)>>, status |-> 1]
    ELSE [stdout |-> RenderAll(res.val), stderr |-> <<>>, status |-> 0]

\* the three arms of `match search(...)` in main
MainMatch(res, quiet) ==
    IF res.kind = "NotFound" /\ quiet
    THEN [stdout |-> <<>>, stderr |-> <<>>, status |-> 1]
    ELSE IF res.kind # "Ok"
    THEN [stdout |-> <<>>, stderr |-> <<Display(res.kind)>>, status |-> 1]
    ELSE [stdout |-> RenderAll(res.val), stderr |-> <<>>, status |-> 0]

(* ---------------------------- state machine ---------------------------- *)

Running == 0 - 1

TypeOK ==
    /\ args \in [arg_data_path : DataPaths, arg_city : TargetCities,
                 flag_quiet : BOOLEAN, flag_show_unknown : BOOLEAN]
    /\ pc \in {"start", "scanning", "returned", "exit"}
    /\ handle \in {"none", "open", "closed"}
    /\ opens \in 0..1
    /\ pos \in 0..Len(input)
    /\ result.kind \in {"Pending", "Ok", "Io", "Csv", "NotFound"}
    /\ status \in {Running, 0, 1}
    /\ run \in 1..2

InitWith(n) ==
    /\ args \in [arg_data_path : DataPaths, arg_city : TargetCities,
                 flag_quiet : BOOLEAN, flag_show_unknown : BOOLEAN]
    /\ input \in Tables(n)
    /\ (args.arg_data_path # <<>> /\ ~FileExists(args.arg_data_path[1])
          => input = <<>>)
    /\ pc = "start"
    /\ handle = "none"
    /\ opens = 0
    /\ pos = 0
    /\ found = <<>>
    /\ result = Pending
    /\ stdout = <<>>
    /\ stderr = <<>>
    /\ status = Running
    /\ run = 1
    /\ prev = Pending

Init == InitWith(MaxRows)

\* search, up to the construction of the reader
Open ==
    /\ pc = "start"
    /\ opens' = opens + 1
    /\ found' = EmptyVec
    /\ pos' = 0
    /\ IF OpenInput(args.arg_data_path).ok
       THEN /\ handle' = "open"
            /\ pc' = "scanning"
            /\ result' = result
       ELSE /\ handle' = "none"
            /\ pc' = "returned"
            /\ result' = Err("Io")
    /\ UNCHANGED <<args, input, stdout, stderr, status, run, prev>>

\* search, one iteration of the loop over the rows
ScanRow ==
    /\ pc = "scanning"
    /\ pos < Len(input)
    /\ LET r == OnRow(input[pos + 1], found, args.arg_city,
                      args.flag_show_unknown)
       IN  /\ pos' = pos + 1
           /\ found' = r.found
           /\ IF r.abort
              THEN /\ result' = Err("Csv")
                   /\ handle' = DropReader(handle, "Csv")
                   /\ pc' = "returned"
              ELSE /\ result' = result
                   /\ handle' = handle
                   /\ pc' = pc
    /\ UNCHANGED <<args, input, opens, stdout, stderr, status, run, prev>>

\* search, after the row sequence is exhausted
Finish ==
    /\ pc = "scanning"
    /\ pos = Len(input)
    /\ result' = SearchEnd(found)
    /\ handle' = DropReader(handle, result'.kind)
    /\ pc' = "returned"
    /\ UNCHANGED <<args, input, opens, pos, found, stdout, stderr, status,
                   run, prev>>

\* main, the match on the value search returned
Report ==
    /\ pc = "returned"
    /\ LET m == MainMatch(result, args.flag_quiet)
       IN  /\ stdout' = m.stdout
           /\ stderr' = m.stderr
           /\ status' = m.status
    /\ pc' = "exit"
    /\ UNCHANGED <<args, input, handle, opens, pos, found, result, run, prev>>

\* the same request is run a second time on the same input
Rerun ==
    /\ pc = "exit"
    /\ run = 1
    /\ run' = 2
    /\ prev' = result
    /\ pc' = "start"
    /\ handle' = "none"
    /\ opens' = 0
    /\ result' = Pending
    /\ stdout' = <<>>
    /\ stderr' = <<>>
    /\ status' = Running
    /\ UNCHANGED <<args, input, pos, found>>

Next == Open \/ ScanRow \/ Finish \/ Report

Spec == Init /\ [][Next]_vars

TwoRunInit == InitWith(MaxRowsTwoRun)

TwoRunNext == Open \/ ScanRow \/ Finish \/ Report \/ Rerun

\* the program is sequential: an enabled step is eventually taken
TwoRunSpec == TwoRunInit /\ [][TwoRunNext]_vars /\ WF_vars(TwoRunNext)

(* ------------------------ vocabulary of the claims --------------------- *)

Returned == pc \in {"returned", "exit"}

\* the source is standard input or a file that exists
InputAvailable ==
    args.arg_data_path = <<>> \/ FileExists(args.arg_data_path[1])

DecodesAt(i) == Decode(input[i]).ok

AllDecode == \A i \in 1..Len(input) : DecodesAt(i)

\* index of the first row that fails to decode, 0 when every row decodes
FirstBad ==
    IF AllDecode THEN 0
    ELSE CHOOSE i \in 1..Len(input) :
             ~DecodesAt(i) /\ \A j \in 1..(i - 1) : DecodesAt(j)

RecordAt(i) == Decode(input[i]).rec

RecordsUpTo(n) == [i \in 1..n |-> RecordAt(i)]

\* the match predicate as the specification states it
MatchPredicate(rec) ==
    /\ rec.city = args.arg_city
    /\ (args.flag_show_unknown \/ rec.population # <<>>)

\* the rows search hands to its caller
ResultRows == IF result.kind = "Ok" THEN result.val ELSE <<>>

InRows(rec, rows) == \E j \in 1..Len(rows) : rows[j] = rec

\* the decimal numerals of the populations of the input universe
Numeral(n) == CASE n = 7 -> "7" [] n = 42 -> "42"

ExpectedLine(p) ==
    p.city \o ", " \o p.region \o ", " \o p.country \o ": " \o
    (IF p.population = <<>> THEN "Unknown Population"
     ELSE Numeral(p.population[1]))

(* -------------------------------- claims ------------------------------- *)

\* C1: with include_unknowns = false and every row decoding, a row is in
\* the returned result iff its population is present and its city equals
\* the target; a row with absent population is never in the result.
C1_KnownPopulationOnly ==
    (Returned /\ ~args.flag_show_unknown /\ InputAvailable /\ AllDecode) =>
        \A i \in 1..Len(input) :
            InRows(RecordAt(i), ResultRows) <=>
                (RecordAt(i).population # <<>>
                 /\ RecordAt(i).city = args.arg_city)

\* a finished scan in known-only mode that met a matching row without
\* population and a matching row with one
C1_Witness ==
    /\ Returned /\ ~args.flag_show_unknown /\ InputAvailable /\ AllDecode
    /\ result.kind = "Ok"
    /\ \E i \in 1..Len(input) :
           RecordAt(i).city = args.arg_city /\ RecordAt(i).population = <<>>

\* C2: with include_unknowns = true and every row decoding, a row is in
\* the returned result iff its city equals the target, whatever its
\* population.
C2_CityOnly ==
    (Returned /\ args.flag_show_unknown /\ InputAvailable /\ AllDecode) =>
        \A i \in 1..Len(input) :
            InRows(RecordAt(i), ResultRows) <=>
                RecordAt(i).city = args.arg_city

\* a finished scan in show-unknown mode that met a matching row without
\* population, a matching row with one, and a row of another city
C2_Witness ==
    /\ Returned /\ args.flag_show_unknown /\ InputAvailable /\ AllDecode
    /\ result.kind = "Ok"
    /\ \E i, j, k \in 1..Len(input) :
           /\ RecordAt(i).city = args.arg_city
           /\ RecordAt(i).population = <<>>
           /\ RecordAt(j).city = args.arg_city
           /\ RecordAt(j).population # <<>>
           /\ RecordAt(k).city # args.arg_city

\* C3: the accumulated result is, after every step of the scan, the
\* in-order filter of the rows consumed so far, and the returned sequence
\* is the in-order filter of all rows: same relative order, no duplicates.
C3_InOrderFilter ==
    /\ pc = "scanning" =>
           found = SelectSeq(RecordsUpTo(pos), MatchPredicate)
    /\ (Returned /\ InputAvailable /\ AllDecode) =>
           ResultRows = SelectSeq(RecordsUpTo(Len(input)), MatchPredicate)

\* a returned result of two different rows, with a rejected row in the
\* input
C3_Witness ==
    /\ Returned /\ result.kind = "Ok"
    /\ Len(result.val) = 2
    /\ result.val[1] # result.val[2]
    /\ Len(input) = 3

\* C4: a decode failure on row k aborts the scan at row k with the Csv
\* error: no later row is consumed, nothing matched before is returned or
\* printed, and the outcome is neither NotFound nor a success.
C4_FirstErrorAborts ==
    /\ (InputAvailable /\ ~AllDecode) => pos <= FirstBad
    /\ (Returned /\ InputAvailable /\ ~AllDecode) =>
           /\ result = Err("Csv")
           /\ pos = FirstBad
    /\ (pc = "exit" /\ InputAvailable /\ ~AllDecode) =>
           /\ stdout = <<>>
           /\ status = 1

\* the scan stopped at a bad row after a match, with rows left unread
C4_Witness ==
    /\ pc = "exit" /\ result.kind = "Csv"
    /\ found # <<>>
    /\ pos = 2
    /\ Len(input) = 3

\* C5: search returns NotFound iff the rows were exhausted, every row
\* decoded and none was accepted; a success is never empty; a table
\* without data rows yields NotFound in both modes.
C5_NotFoundIffNoMatch ==
    Returned =>
        /\ result.kind = "NotFound" <=>
               /\ InputAvailable
               /\ AllDecode
               /\ \A i \in 1..Len(input) : ~MatchPredicate(RecordAt(i))
        /\ result.kind = "Ok" => (result.val # <<>> /\ result.val = found)
        /\ (InputAvailable /\ input = <<>>) => result.kind = "NotFound"

\* NotFound after a scan of rows whose city matches but whose population
\* is unknown
C5_Witness ==
    /\ Returned /\ result.kind = "NotFound"
    /\ Len(input) >= 2
    /\ \E i \in 1..Len(input) : RecordAt(i).city = args.arg_city

\* C6: on NotFound the process exits with status 1 in both modes; quiet
\* mode emits no message, non-quiet mode emits the not-found message.
C6_NotFoundStatus ==
    (pc = "exit" /\ result.kind = "NotFound") =>
        /\ status = 1
        /\ stdout = <<>>
        /\ args.flag_quiet => stderr = <<>>
        /\ ~args.flag_quiet =>
               stderr = <<"No matching cities with a population were found.">>

\* a quiet run that ended in NotFound
C6_Witness ==
    pc = "exit" /\ result.kind = "NotFound" /\ args.flag_quiet

\* C7: an open failure or a decode failure makes the process emit one
\* error message and exit with status 1 whatever the quiet flag, and print
\* no result line; only NotFound is ever silenced.
C7_FatalErrorsReported ==
    /\ (pc = "exit" /\ (~InputAvailable \/ ~AllDecode)) =>
           /\ result.kind \in {"Io", "Csv"}
           /\ status = 1
           /\ Len(stderr) = 1
           /\ stderr[1] \in {IoErrorText, CsvErrorText}
           /\ stdout = <<>>
    /\ (pc = "exit" /\ status = 1 /\ stderr = <<>>) =>
           (result.kind = "NotFound" /\ args.flag_quiet)

\* a quiet run whose file could not be opened
C7_Witness ==
    /\ pc = "exit" /\ args.flag_quiet
    /\ ~InputAvailable
    /\ result.kind = "Io"

\* C8: on success main prints one line per record of the result, in the
\* order of the result, "<city>, <region>, <country>: <population>" with
\* "Unknown Population" for an absent population, emits no error message
\* and exits with status 0.
C8_PrintedLines ==
    (pc = "exit" /\ result.kind = "Ok") =>
        /\ Len(stdout) = Len(result.val)
        /\ \A i \in 1..Len(result.val) :
               stdout[i] = ExpectedLine(result.val[i])
        /\ stderr = <<>>
        /\ status = 0

\* a run that printed a known and an unknown population
C8_Witness ==
    /\ pc = "exit"
    /\ stdout = <<"Paris, Texas, France: 42",
                  "Paris, Texas, France: Unknown Population">>

\* C9: the handle is held during the scan and released on every exit
\* path of search; an open failure is an I/O error before any row is read,
\* is not retried and leaves no handle held.
C9_HandleReleased ==
    /\ pc = "scanning" => handle = "open"
    /\ Returned => handle # "open"
    /\ opens <= 1
    /\ (~InputAvailable /\ pc # "start") =>
           /\ result.kind = "Io"
           /\ pos = 0
           /\ handle = "none"
           /\ opens = 1

\* search returned early on a decode error
C9_Witness ==
    /\ Returned /\ result.kind = "Csv"
    /\ handle = "closed"
    /\ pos < Len(input)

====
